---- MODULE Spec2Model ----
(***************************************************************************)
(* StarReach: the stargazer ingestion / enrichment / persistence pipeline  *)
(* of src/main.py, with the paginator of src/github_client.py and the      *)
(* extraction of src/scraper.py.                                           *)
(*                                                                         *)
(* The browser handle of main.py:215 is taken as launched: the statement   *)
(* sits outside the try block and the pipeline is what is modelled.        *)
(***************************************************************************)
EXTENDS Integers, Sequences, FiniteSets, TLC

(***************************************************************************)
(* Bounds of the model.                                                    *)
(***************************************************************************)
\* number of tasks that make a batch; main.py:248 and :273 use 20
BatchSize == 2
\* items per page of the listing; github_client.py:38 asks for 100
PageSize == 2
\* pages of the upstream listing
MaxPages == 2
\* items the upstream serves in all, over the runs
MaxItems == 3
\* rate-limited or failed page responses, over the runs
MaxWaits == 1
\* failed flushes, over the runs
MaxFlushFail == 1
\* consecutive runs against the same store
MaxRuns == 2
\* pattern matches in a bio or a rendered document
MaxTextLen == 2
\* permits of the shared semaphore; main.py:155 creates it with 10, half
\* the size of a batch
SemPermits == 1
\* coroutines that end with an exception, over the runs
MaxRaised == 1
\* largest Retry-After value and clock value of a rate-limited response
MaxHdr == 3

(***************************************************************************)
(* Program constants.                                                      *)
(***************************************************************************)
DefaultRetryAfter == 60
NetworkErrorWait == 5

None == "None"

Keys == {"alice", "bob"}

\* requested caps (args.limit); 0 stands for no --limit
Limits == {0, 1}

(***************************************************************************)
(* scraper.py: extraction.  A text is a sequence of tokens, one per place  *)
(* where one of the patterns matches, in document order.                   *)
(***************************************************************************)
Fields == {"scraped_email", "scraped_linkedin", "scraped_twitter",
           "scraped_facebook", "scraped_instagram", "scraped_youtube",
           "scraped_bluesky"}

NoContacts == [f \in Fields |-> None]

\* the matches of the pattern of field f in text, in document order
findall(f, text) ==
    LET hits == SelectSeq(text, LAMBDA tok : tok.kind = f)
    IN  [i \in 1..Len(hits) |-> hits[i].val]

\* what each field's first match is turned into (scraper.py:40-53)
format(f, m) ==
    CASE f = "scraped_email"     -> m
      [] f = "scraped_linkedin"  -> "https://www." \o m
      [] f = "scraped_twitter"   -> "https://x.com/" \o m
      [] f = "scraped_facebook"  -> "https://facebook.com/" \o m
      [] f = "scraped_instagram" -> "https://instagram.com/" \o m
      [] f = "scraped_youtube"   -> "https://youtube.com/" \o m
      [] f = "scraped_bluesky"   -> "https://bsky.app/profile/" \o m

\* an extraction that keeps the last match of every pattern
extract_last_match(text) ==
    IF text = <<>> THEN NoContacts
    ELSE [f \in Fields |->
            IF findall(f, text) # <<>>
            THEN format(f, findall(f, text)[Len(findall(f, text))])
            ELSE None]

\* scraper.py:16-55
extract_from_text(text) ==
    IF text = <<>> THEN NoContacts
    ELSE [f \in Fields |->
            IF findall(f, text) # <<>> THEN format(f, findall(f, text)[1])
            ELSE None]

truthy(v) == v # None /\ v # ""

(***************************************************************************)
(* The upstream world of the main specification: detail records, document  *)
(* URLs and rendered texts per login.                                      *)
(***************************************************************************)
Tok(k, v) == [kind |-> k, val |-> v]

FixedWorld ==
    [alice |-> [bio      |-> <<Tok("scraped_email", "alice@x.com")>>,
                blog     |-> None,
                html_url |-> "github.com/alice",
                doc1     |-> <<>>,
                doc2     |-> <<Tok("scraped_linkedin", "linkedin.com/in/alice")>>],
     bob   |-> [bio      |-> <<Tok("scraped_email", "bob@x.com")>>,
                blog     |-> None,
                html_url |-> None,
                doc1     |-> <<>>,
                doc2     |-> <<>>]]

(***************************************************************************)
(* main.py save_progress: the row shape of the store.                      *)
(***************************************************************************)
columns_map ==
    [login             |-> "Username",
     scraped_email     |-> "Scraped Email",
     scraped_twitter   |-> "Twitter (Scraped)",
     scraped_linkedin  |-> "LinkedIn",
     scraped_facebook  |-> "Facebook",
     scraped_instagram |-> "Instagram",
     scraped_youtube   |-> "YouTube",
     scraped_bluesky   |-> "Bluesky"]

Columns == {columns_map[c] : c \in DOMAIN columns_map}

\* the value of key c of the user dictionary
UserGet(user, c) == IF c = "login" THEN user.login ELSE user.contacts[c]

ToRow(user) ==
    [col \in Columns |->
        LET c == CHOOSE k \in DOMAIN columns_map : columns_map[k] = col
        IN  UserGet(user, c)]

ToRows(us) == [i \in 1..Len(us) |-> ToRow(us[i])]

VARIABLES
    store,               \* rows of stargazers.xlsx
    storeState,          \* "absent", "valid" or "corrupt" (not readable)
    run,                 \* number of the current run
    start_store,         \* rows of stargazers.xlsx when this run started
    pc,                  \* position of main()
    base_df,             \* rows loaded at startup
    existing_usernames,  \* keys loaded at startup
    new_users,           \* entities completed in this run
    tasks,               \* the batch being collected or awaited
    total_fetched,
    skipped_count,
    limit,               \* args.limit
    interrupted,         \* a stop signal was received in this run
    gen,                 \* position of the generator get_stargazers
    url,                 \* cursor: number of the page to fetch, 0 for none
    users,               \* items of the page being yielded
    next_url,
    retry_after,         \* wait returned by the last page fetch
    response,            \* status and headers of the last page response
    listed,              \* items of the pages served in this run, in order
    handed,              \* items the generator has yielded in this run
    elapsed,             \* time slept since that response
    nWaits,              \* waits of the paginator so far
    served,              \* items the upstream has served so far
    sem,                 \* free permits of the shared semaphore
    world,               \* the upstream data
    lastFlush,           \* what the last save_progress logged
    nFlushFail,          \* failed flushes so far
    nRaised,             \* coroutines that have raised so far
    task_errors          \* "Task failed with error" lines logged so far

storeVars == <<store, storeState>>
mainVars  == <<pc, base_df, existing_usernames, new_users, tasks,
               total_fetched, skipped_count, limit, interrupted>>
genVars   == <<gen, url, users, next_url, retry_after, elapsed, nWaits, served,
               response, listed, handed>>
logVars   == <<lastFlush, nFlushFail, nRaised, task_errors>>
vars == <<store, storeState, run, start_store, pc, base_df, existing_usernames, new_users,
          tasks, total_fetched, skipped_count, limit, interrupted, gen, url,
          users, next_url, retry_after, elapsed, nWaits, served, sem, world,
          lastFlush, nFlushFail, response, listed, handed, nRaised,
          task_errors>>

\* the headers and the clock of a response that is not rate limited
NoHeaders == [hasRetryAfter |-> FALSE, retryAfter |-> 0, reset |-> 0, now |-> 0]

\* no page has been requested yet
NoResponse == [status |-> -1] @@ NoHeaders

\* the state of main() before the store is looked at (main.py:116-135, 148,
\* 155, 223-227)
Fresh(l) ==
    /\ pc = "load"
    /\ base_df = <<>>
    /\ existing_usernames = {}
    /\ new_users = <<>>
    /\ tasks = <<>>
    /\ total_fetched = 0
    /\ skipped_count = 0
    /\ limit = l
    /\ interrupted = FALSE
    /\ gen = "fetch"
    /\ url = 1
    /\ users = <<>>
    /\ next_url = 0
    /\ retry_after = 0
    /\ elapsed = 0
    /\ response = NoResponse
    /\ listed = <<>>
    /\ handed = <<>>
    /\ sem = SemPermits
    /\ lastFlush = "none"

Init ==
    /\ store = <<>>
    /\ storeState = "absent"
    /\ run = 1
    /\ start_store = <<>>
    /\ world = FixedWorld
    /\ nWaits = 0
    /\ served = 0
    /\ nFlushFail = 0
    /\ nRaised = 0
    /\ task_errors = 0
    /\ \E l \in Limits : Fresh(l)

(***************************************************************************)
(* main.py:133-146: load the existing store.                               *)
(***************************************************************************)
\* set(base_df["Username"].dropna().astype(str))
Usernames(rows) ==
    {rows[i]["Username"] : i \in {j \in 1..Len(rows) : rows[j]["Username"] # None}}

LoadStore ==
    /\ pc = "load"
    /\ \/ /\ storeState = "absent"
          /\ UNCHANGED <<base_df, existing_usernames>>
       \/ /\ storeState = "valid"
          /\ base_df' = store
          /\ existing_usernames' = Usernames(store)
       \/ \* read_excel raises: logged, the run goes on with nothing loaded
          /\ storeState \in {"valid", "corrupt"}
          /\ UNCHANGED <<base_df, existing_usernames>>
    /\ pc' = "loop"
    /\ UNCHANGED <<storeVars, run, start_store, new_users, tasks, total_fetched,
                   skipped_count, limit, interrupted, genVars, sem, world,
                   logVars>>

(***************************************************************************)
(* github_client.py:29-61 fetch_stargazers_page.  A response is what the   *)
(* upstream answers: its status, the items and next link of a 200, the     *)
(* headers of a 403/429.  status 0 stands for a RequestException.          *)
(***************************************************************************)
Max(a, b) == IF a >= b THEN a ELSE b

\* github_client.py:47-54: the wait of a rate-limited response
sleep_time(hasRetryAfter, retryAfterHdr, reset_time, current_time) ==
    LET retry_after_ == IF hasRetryAfter THEN retryAfterHdr ELSE DefaultRetryAfter
    IN  IF reset_time # 0
        THEN Max(retry_after_, reset_time - current_time + 1)
        ELSE retry_after_

\* (users, next_url, retry_after) of fetch_stargazers_page(u)
fetch_stargazers_page(u, resp) ==
    CASE resp.status = 200 ->
            [users |-> resp.items, next_url |-> resp.next, retry_after |-> 0]
      [] resp.status \in {403, 429} ->
            [users |-> <<>>, next_url |-> u,
             retry_after |-> sleep_time(resp.hasRetryAfter, resp.retryAfter,
                                        resp.reset, resp.now)]
      [] resp.status = 0 ->
            [users |-> <<>>, next_url |-> u, retry_after |-> NetworkErrorWait]
      [] OTHER ->
            [users |-> <<>>, next_url |-> 0, retry_after |-> 0]

\* sequences over S of length n
RECURSIVE SeqsOfLen(_, _)
SeqsOfLen(S, n) ==
    IF n = 0 THEN {<<>>}
    ELSE {<<x>> \o t : x \in S, t \in SeqsOfLen(S, n - 1)}

\* the pages the upstream can serve: up to PageSize logins, none twice in
\* a page (a login can come again on a later page when the listing shifts)
PageItems ==
    {it \in UNION {SeqsOfLen(Keys, n) : n \in 0..PageSize} :
        \A i, j \in 1..Len(it) : it[i] = it[j] => i = j}

\* the headers of a rate-limited response and the clock when it is read:
\* no header at all, Retry-After alone, and both headers with the reset
\* ahead of the clock
RateLimitHeaders ==
    {NoHeaders,
     [hasRetryAfter |-> TRUE, retryAfter |-> 0, reset |-> 0, now |-> 1],
     [hasRetryAfter |-> TRUE, retryAfter |-> 2, reset |-> 3, now |-> 1]}

\* the answers the upstream can give to a fetch of page u
Responses(u) ==
    {[status |-> 200, items |-> it,
      next |-> nx] @@ NoHeaders :
        it \in PageItems,
        nx \in IF u < MaxPages THEN {0, u + 1} ELSE {0}}
    \cup
    {[status |-> st, items |-> <<>>, next |-> 0] @@ h :
        st \in {403, 429}, h \in RateLimitHeaders}
    \cup
    {[status |-> st, items |-> <<>>, next |-> 0] @@ NoHeaders : st \in {0, 404}}

Waiting(resp) == resp.status \in {0, 403, 429}

(***************************************************************************)
(* github_client.py:72-90 get_stargazers: fetch the page of the cursor.    *)
(* The generator only runs while main() asks it for the next item.         *)
(***************************************************************************)
\* github_client.py:72-90: one turn of the inner loop of get_stargazers on
\* an answer out of R
GenFetchFrom(R) ==
    /\ pc = "loop"
    /\ gen = "fetch"
    /\ \E resp \in R :
          LET r == fetch_stargazers_page(url, resp) IN
          /\ response' = [status |-> resp.status,
                          hasRetryAfter |-> resp.hasRetryAfter,
                          retryAfter |-> resp.retryAfter,
                          reset |-> resp.reset, now |-> resp.now]
          /\ listed' = listed \o r.users
          /\ UNCHANGED handed
          /\ Waiting(resp) => nWaits < MaxWaits
          /\ nWaits' = IF Waiting(resp) THEN nWaits + 1 ELSE nWaits
          /\ served + Len(resp.items) <= MaxItems
          /\ served' = served + Len(resp.items)
          /\ retry_after' = r.retry_after
          /\ elapsed' = 0
          /\ IF r.retry_after > 0
             THEN \* time.sleep(retry_after); continue
                  /\ gen' = "sleep"
                  /\ UNCHANGED <<url, users, next_url>>
             ELSE IF r.users = <<>>
             THEN \* return: nothing to yield
                  /\ gen' = "end"
                  /\ users' = <<>>
                  /\ next_url' = r.next_url
                  /\ UNCHANGED url
             ELSE /\ gen' = "yield"
                  /\ users' = r.users
                  /\ next_url' = r.next_url
                  /\ UNCHANGED url
    /\ UNCHANGED <<storeVars, run, start_store, mainVars, sem, world, logVars>>

GenFetch == GenFetchFrom(Responses(url))

\* a paginator that goes on at once instead of sleeping
GenSleep_NoWait ==
    /\ pc = "loop"
    /\ gen = "sleep"
    /\ elapsed' = 0
    /\ gen' = "fetch"
    /\ UNCHANGED <<url, users, next_url, retry_after, nWaits, served, response,
                   listed, handed>>
    /\ UNCHANGED <<storeVars, run, start_store, mainVars, sem, world, logVars>>

\* github_client.py:79: time.sleep returns after at least retry_after
GenSleep ==
    /\ pc = "loop"
    /\ gen = "sleep"
    /\ \E d \in {retry_after, retry_after + 1} : elapsed' = d
    /\ gen' = "fetch"
    /\ UNCHANGED <<url, users, next_url, retry_after, nWaits, served, response,
                   listed, handed>>
    /\ UNCHANGED <<storeVars, run, start_store, mainVars, sem, world, logVars>>

(***************************************************************************)
(* main.py:28-78 process_user, as operators on the contact fields.         *)
(***************************************************************************)
\* a bio step that merges nothing
bio_step_skip(contacts, bio) == contacts

\* main.py:36-44: the bio is merged when it yields an email or a linkedin
bio_step(contacts, bio) ==
    LET bio_contacts == extract_from_text(bio)
    IN  IF bio # <<>> /\ (truthy(bio_contacts["scraped_email"])
                           \/ truthy(bio_contacts["scraped_linkedin"]))
        THEN bio_contacts
        ELSE contacts

\* main.py:74-76: the non-empty values of one result overwrite
merge_result(contacts, res) ==
    [f \in Fields |-> IF truthy(res[f]) THEN res[f] ELSE contacts[f]]

\* main.py:71: the results in the order of urls_to_scrape
RECURSIVE merge_results(_, _)
merge_results(contacts, results) ==
    IF results = <<>> THEN contacts
    ELSE merge_results(merge_result(contacts, Head(results).data), Tail(results))

\* the fields of the user dictionary that the detail record provides
UserBio(user)  == IF user.detailed THEN world[user.login].bio ELSE <<>>
UserBlog(user) == IF user.detailed THEN world[user.login].blog ELSE None
UserHtml(user) == world[user.login].html_url

\* main.py:46-55
urls_to_scrape(user) ==
    (IF truthy(UserBlog(user)) THEN <<UserBlog(user)>> ELSE <<>>)
    \o (IF truthy(UserHtml(user)) THEN <<UserHtml(user)>> ELSE <<>>)

\* what the renderer returns for a document of the user
page_content(login, u) ==
    IF u = world[login].blog THEN world[login].doc1 ELSE world[login].doc2

\* the item of the listing as main() receives it, and its coroutine
raw_user(login) == [login |-> login, detailed |-> FALSE, contacts |-> NoContacts]

NewTask(login) ==
    [user |-> raw_user(login), tpc |-> "start", urls |-> <<>>,
     results |-> <<>>, calls |-> <<>>, finished |-> <<>>, detail_oks |-> 0]

Awaiting == pc \in {"gather", "gather_final"}

(***************************************************************************)
(* main.py:157-212 process_full_user, one action per await.                *)
(***************************************************************************)
\* a coroutine that is scheduled as soon as it is created
TaskAcquire_Eager(i) ==
    /\ pc \in {"loop", "gather", "gather_final"}
    /\ tasks[i].tpc = "start"
    /\ sem > 0
    /\ sem' = sem - 1
    /\ tasks' = [tasks EXCEPT ![i].tpc = "details1"]
    /\ UNCHANGED <<storeVars, run, start_store, pc, base_df, existing_usernames, new_users,
                   total_fetched, skipped_count, limit, interrupted, genVars,
                   world, logVars>>

\* main.py:158: async with sem
TaskAcquire(i) ==
    /\ Awaiting
    /\ tasks[i].tpc = "start"
    /\ sem > 0
    /\ sem' = sem - 1
    /\ tasks' = [tasks EXCEPT ![i].tpc = "details1"]
    /\ UNCHANGED <<storeVars, run, start_store, pc, base_df, existing_usernames, new_users,
                   total_fetched, skipped_count, limit, interrupted, genVars,
                   world, logVars>>

\* a first block that keeps its permit while the rest of the coroutine runs
TaskDetails1_Hold(i) ==
    /\ Awaiting
    /\ tasks[i].tpc = "details1"
    /\ \E details \in BOOLEAN :
          tasks' = [tasks EXCEPT ![i].tpc = "details2",
                                 ![i].user.detailed = @ \/ details,
                                 ![i].detail_oks = IF details THEN @ + 1 ELSE @]
    /\ sem' = sem
    /\ UNCHANGED <<storeVars, run, start_store, pc, base_df, existing_usernames, new_users,
                   total_fetched, skipped_count, limit, interrupted, genVars,
                   world, logVars>>

\* main.py:162-165 and the end of the with block: get_user_details returns
\* the record or {}
TaskDetails1(i) ==
    /\ Awaiting
    /\ tasks[i].tpc = "details1"
    /\ \E details \in BOOLEAN :
          tasks' = [tasks EXCEPT ![i].tpc = "details2",
                                 ![i].user.detailed = @ \/ details,
                                 ![i].detail_oks = IF details THEN @ + 1 ELSE @]
    /\ sem' = sem + 1
    /\ UNCHANGED <<storeVars, run, start_store, pc, base_df, existing_usernames, new_users,
                   total_fetched, skipped_count, limit, interrupted, genVars,
                   world, logVars>>

\* main.py:191-193: an exception inside the first with block is logged and
\* the coroutine returns the entity as it is; the with block is left
TaskDetails1Raise(i) ==
    /\ Awaiting
    /\ tasks[i].tpc = "details1"
    /\ nRaised < MaxRaised
    /\ nRaised' = nRaised + 1
    /\ tasks' = [tasks EXCEPT ![i].tpc = "done"]
    /\ sem' = sem + 1
    /\ UNCHANGED <<storeVars, run, start_store, pc, base_df, existing_usernames, new_users,
                   total_fetched, skipped_count, limit, interrupted, genVars,
                   world, lastFlush, nFlushFail, task_errors>>

\* main.py:198-212 and process_user up to its first await (main.py:35-58)
TaskDetails2(i) ==
    /\ Awaiting
    /\ tasks[i].tpc = "details2"
    /\ \E details \in BOOLEAN :
          LET u1 == [tasks[i].user EXCEPT !.detailed = @ \/ details]
              u2 == [u1 EXCEPT !.contacts = bio_step(@, UserBio(u1))]
              us == urls_to_scrape(u2)
          IN  tasks' = [tasks EXCEPT
                          ![i].user = u2,
                          ![i].urls = us,
                          ![i].detail_oks = IF details THEN @ + 1 ELSE @,
                          ![i].tpc = IF us # <<>> THEN "wait_sem" ELSE "done"]
    /\ UNCHANGED <<storeVars, run, start_store, pc, base_df, existing_usernames, new_users,
                   total_fetched, skipped_count, limit, interrupted, genVars,
                   sem, world, logVars>>

\* an exception nothing in process_user catches (main.py:35-58 run outside
\* any try block): the coroutine ends with it
TaskRaise(i) ==
    /\ Awaiting
    /\ tasks[i].tpc = "details2"
    /\ nRaised < MaxRaised
    /\ nRaised' = nRaised + 1
    /\ tasks' = [tasks EXCEPT ![i].tpc = "raised"]
    /\ UNCHANGED <<storeVars, run, start_store, pc, base_df, existing_usernames, new_users,
                   total_fetched, skipped_count, limit, interrupted, genVars,
                   sem, world, lastFlush, nFlushFail, task_errors>>

\* main.py:59: async with sem, then the scrapes are started (main.py:69)
TaskScrapeStart(i) ==
    /\ Awaiting
    /\ tasks[i].tpc = "wait_sem"
    /\ sem > 0
    /\ sem' = sem - 1
    /\ tasks' = [tasks EXCEPT
                    ![i].tpc = "scraping",
                    ![i].results = [j \in 1..Len(tasks[i].urls) |->
                                       [st |-> "pending", data |-> NoContacts]],
                    ![i].calls = [j \in 1..Len(tasks[i].urls) |-> 0]]
    /\ UNCHANGED <<storeVars, run, start_store, pc, base_df, existing_usernames, new_users,
                   total_fetched, skipped_count, limit, interrupted, genVars,
                   world, logVars>>

\* main.py:62-67 scrape_wrapper around scraper.py:57-92 scrape_url: the
\* extraction of the rendered text, or {} when scrape_url raises
scrape_wrapper(login, u, ok) ==
    IF ok THEN [st |-> "ok", data |-> extract_from_text(page_content(login, u))]
    ELSE [st |-> "error", data |-> NoContacts]

\* a wrapper that calls scrape_url again when it raised, up to three calls
TaskScrapeDone_Retry(i, j) ==
    /\ Awaiting
    /\ tasks[i].tpc = "scraping"
    /\ tasks[i].results[j].st = "pending"
    /\ \E ok \in BOOLEAN :
          tasks' = [tasks EXCEPT
                      ![i].results[j] =
                          IF ~ok /\ tasks[i].calls[j] + 1 < 3 THEN @
                          ELSE scrape_wrapper(tasks[i].user.login, tasks[i].urls[j], ok),
                      ![i].calls[j] = @ + 1,
                      ![i].finished =
                          IF ~ok /\ tasks[i].calls[j] + 1 < 3 THEN @
                          ELSE Append(@, j)]
    /\ UNCHANGED <<storeVars, run, start_store, pc, base_df, existing_usernames, new_users,
                   total_fetched, skipped_count, limit, interrupted, genVars,
                   sem, world, logVars>>

\* one scrape returns; finished records the order in which they do
TaskScrapeDone(i, j) ==
    /\ Awaiting
    /\ tasks[i].tpc = "scraping"
    /\ tasks[i].results[j].st = "pending"
    /\ \E ok \in BOOLEAN :
          tasks' = [tasks EXCEPT
                      ![i].results[j] =
                          scrape_wrapper(tasks[i].user.login, tasks[i].urls[j], ok),
                      ![i].calls[j] = @ + 1,
                      ![i].finished = Append(@, j)]
    /\ UNCHANGED <<storeVars, run, start_store, pc, base_df, existing_usernames, new_users,
                   total_fetched, skipped_count, limit, interrupted, genVars,
                   sem, world, logVars>>

\* a merge that takes the results in the order in which the scrapes returned
TaskMerge_AsCompleted(i) ==
    /\ Awaiting
    /\ tasks[i].tpc = "scraping"
    /\ \A j \in 1..Len(tasks[i].results) : tasks[i].results[j].st # "pending"
    /\ tasks' = [tasks EXCEPT
                    ![i].user.contacts =
                        merge_results(@, [k \in 1..Len(tasks[i].finished) |->
                                            tasks[i].results[tasks[i].finished[k]]]),
                    ![i].tpc = "done"]
    /\ sem' = sem + 1
    /\ UNCHANGED <<storeVars, run, start_store, pc, base_df, existing_usernames, new_users,
                   total_fetched, skipped_count, limit, interrupted, genVars,
                   world, logVars>>

\* main.py:69-78: gather has every result; merge, leave the with block
TaskMerge(i) ==
    /\ Awaiting
    /\ tasks[i].tpc = "scraping"
    /\ \A j \in 1..Len(tasks[i].results) : tasks[i].results[j].st # "pending"
    /\ tasks' = [tasks EXCEPT
                    ![i].user.contacts = merge_results(@, tasks[i].results),
                    ![i].tpc = "done"]
    /\ sem' = sem + 1
    /\ UNCHANGED <<storeVars, run, start_store, pc, base_df, existing_usernames, new_users,
                   total_fetched, skipped_count, limit, interrupted, genVars,
                   world, logVars>>

(***************************************************************************)
(* main.py:80-114 save_progress.  The outcome is what the file system      *)
(* does to DataFrame.to_excel, which writes stargazers.xlsx in place:      *)
(*   "saved"       the file is written and closed;                         *)
(*   "error_open"  an exception before the file is opened (it is locked,   *)
(*                 not writable): caught and logged, file untouched;       *)
(*   "error_write" an exception after the file was opened for writing:     *)
(*                 caught and logged, the file is left unreadable;         *)
(*   "crash"       the process dies while the file is being written.       *)
(***************************************************************************)
SaveOutcomes == {"saved", "error_open", "error_write", "crash"}

\* a flush that appends the new rows to what the file holds
combined_df_append(base, new) == store \o ToRows(new)

\* main.py:85-108: pd.concat([base_df, new_df])
combined_df(base, new) == base \o ToRows(new)

save_progress(base, new, outcome) ==
    /\ outcome # "saved" => nFlushFail < MaxFlushFail
    /\ CASE outcome = "saved" ->
              /\ store' = combined_df(base, new)
              /\ storeState' = "valid"
              /\ lastFlush' = "saved"
              /\ UNCHANGED nFlushFail
         [] outcome = "error_open" ->
              /\ UNCHANGED <<store, storeState>>
              /\ lastFlush' = "failed"
              /\ nFlushFail' = nFlushFail + 1
         [] outcome = "error_write" ->
              /\ store' = <<>>
              /\ storeState' = "corrupt"
              /\ lastFlush' = "failed"
              /\ nFlushFail' = nFlushFail + 1
         [] outcome = "crash" ->
              /\ store' = <<>>
              /\ storeState' = "corrupt"
              /\ lastFlush' = "none"
              /\ nFlushFail' = nFlushFail + 1

(***************************************************************************)
(* main.py:229-298: the main loop.                                         *)
(***************************************************************************)
\* the generator after it has yielded the head of users
\* (github_client.py:92-101 and the test of the while loop)
GenAdvance ==
    /\ users' = Tail(users)
    /\ IF Tail(users) # <<>>
       THEN UNCHANGED <<gen, url>>
       ELSE /\ url' = next_url
            /\ gen' = IF next_url # 0 THEN "fetch" ELSE "end"
    /\ handed' = Append(handed, Head(users))
    /\ UNCHANGED <<next_url, retry_after, elapsed, nWaits, served, response,
                   listed>>

\* a test that lets one more entity in
cap_reached_late(l, fetched) == l # 0 /\ fetched > l

\* main.py:231: if args.limit and total_fetched >= args.limit
cap_reached(l, fetched) == l # 0 /\ fetched >= l

\* main.py:231-233: the cap is reached, leave the loop
LoopBreak ==
    /\ pc = "loop"
    /\ gen = "yield"
    /\ cap_reached(limit, total_fetched)
    /\ GenAdvance
    /\ pc' = IF tasks # <<>> THEN "gather_final" ELSE "finally"
    /\ UNCHANGED <<storeVars, run, start_store, base_df, existing_usernames, new_users,
                   tasks, total_fetched, skipped_count, limit, interrupted,
                   sem, world, logVars>>

\* a loop that does not look at the loaded keys
admit_always(login, existing) == TRUE

\* main.py:236-240: the login is among the loaded keys
admit(login, existing) == login \notin existing

LoopSkip ==
    /\ pc = "loop"
    /\ gen = "yield"
    /\ ~cap_reached(limit, total_fetched)
    /\ ~admit(Head(users), existing_usernames)
    /\ skipped_count' = skipped_count + 1
    /\ GenAdvance
    /\ UNCHANGED <<storeVars, run, start_store, pc, base_df, existing_usernames, new_users,
                   tasks, total_fetched, limit, interrupted, sem, world,
                   logVars>>

\* a loop that collects coroutines and awaits them only at the end
LoopAdmit_NoBatch ==
    /\ pc = "loop"
    /\ gen = "yield"
    /\ ~cap_reached(limit, total_fetched)
    /\ admit(Head(users), existing_usernames)
    /\ tasks' = Append(tasks, NewTask(Head(users)))
    /\ total_fetched' = total_fetched + 1
    /\ pc' = "loop"
    /\ GenAdvance
    /\ UNCHANGED <<storeVars, run, start_store, base_df, existing_usernames, new_users,
                   skipped_count, limit, interrupted, sem, world, logVars>>

\* main.py:269-274: a coroutine is collected; a full batch is awaited.
\* The test of main.py:248 is never true: a batch is awaited as soon as it
\* is full.
LoopAdmit ==
    /\ pc = "loop"
    /\ gen = "yield"
    /\ ~cap_reached(limit, total_fetched)
    /\ admit(Head(users), existing_usernames)
    /\ tasks' = Append(tasks, NewTask(Head(users)))
    /\ total_fetched' = total_fetched + 1
    /\ pc' = IF Len(tasks') >= BatchSize THEN "gather" ELSE "loop"
    /\ GenAdvance
    /\ UNCHANGED <<storeVars, run, start_store, base_df, existing_usernames, new_users,
                   skipped_count, limit, interrupted, sem, world, logVars>>

\* main.py:291-298: the generator is exhausted
LoopEnd ==
    /\ pc = "loop"
    /\ gen = "end"
    /\ pc' = IF tasks # <<>> THEN "gather_final" ELSE "finally"
    /\ UNCHANGED <<storeVars, run, start_store, base_df, existing_usernames, new_users,
                   tasks, total_fetched, skipped_count, limit, interrupted,
                   genVars, sem, world, logVars>>

\* a collection in which the entities with no document to fetch, whose
\* coroutines return first, come first
batch_results_as_completed(ts) ==
    [i \in 1..Len(SelectSeq(ts, LAMBDA t : t.tpc = "done" /\ t.urls = <<>>)) |->
        SelectSeq(ts, LAMBDA t : t.tpc = "done" /\ t.urls = <<>>)[i].user]
    \o [i \in 1..Len(SelectSeq(ts, LAMBDA t : t.tpc = "done" /\ t.urls # <<>>)) |->
        SelectSeq(ts, LAMBDA t : t.tpc = "done" /\ t.urls # <<>>)[i].user]

\* the results of gather that are not exceptions, in the order of the
\* tasks (main.py:279-283 and :295)
batch_results(ts) ==
    LET ok == SelectSeq(ts, LAMBDA t : t.tpc = "done")
    IN  [i \in 1..Len(ok) |-> ok[i].user]

\* the exceptions among the results of gather
batch_errors(ts) == Len(SelectSeq(ts, LAMBDA t : t.tpc = "raised"))

\* a collection that is emptied for every batch
extend_replace(new, batch) == batch

\* main.py:285 and :296: new_users.extend(current_batch_users)
extend(new, batch) == new \o batch

\* an await that returns at once and collects the entities of coroutines
\* that are still running
GatherReturn_NoWait ==
    /\ Awaiting
    /\ new_users' = extend(new_users, [i \in 1..Len(tasks) |-> tasks[i].user])
    /\ tasks' = <<>>
    /\ sem' = SemPermits
    /\ UNCHANGED <<nRaised, task_errors>>
    /\ \E outcome \in SaveOutcomes :
          /\ save_progress(base_df, new_users', outcome)
          /\ pc' = IF outcome = "crash" THEN "crashed"
                   ELSE IF pc = "gather" THEN "loop" ELSE "finally"
    /\ UNCHANGED <<run, start_store, base_df, existing_usernames, total_fetched,
                   skipped_count, limit, interrupted, genVars, world>>

\* main.py:275-289 and 294-298: every task has returned; extend new_users
\* and save
GatherReturn ==
    /\ Awaiting
    /\ \A i \in 1..Len(tasks) : tasks[i].tpc \in {"done", "raised"}
    /\ new_users' = extend(new_users, batch_results(tasks))
    /\ tasks' = <<>>
    \* main.py:280-281 logs the exceptions of a full batch; main.py:295
    \* drops those of the last batch
    /\ task_errors' = IF pc = "gather" THEN task_errors + batch_errors(tasks)
                      ELSE task_errors
    /\ UNCHANGED nRaised
    /\ \E outcome \in SaveOutcomes :
          /\ save_progress(base_df, new_users', outcome)
          /\ pc' = IF outcome = "crash" THEN "crashed"
                   ELSE IF pc = "gather" THEN "loop" ELSE "finally"
    /\ UNCHANGED <<run, start_store, base_df, existing_usernames, total_fetched,
                   skipped_count, limit, interrupted, genVars, sem, world>>

\* main.py:300-301: the stop signal ends the try block wherever it is
Interrupt ==
    /\ pc \in {"loop", "gather", "gather_final"}
    /\ interrupted' = TRUE
    /\ pc' = "finally"
    \* the coroutines that have not returned are cancelled and leave their
    \* with blocks; nothing refers to the ones that have returned
    /\ tasks' = SelectSeq(tasks, LAMBDA t : t.tpc = "done")
    /\ sem' = SemPermits
    /\ UNCHANGED <<storeVars, run, start_store, base_df, existing_usernames, new_users,
                   total_fetched, skipped_count, limit, genVars, world,
                   logVars>>

\* main.py:304-307 and the exit of the process
Finally ==
    /\ pc = "finally"
    /\ IF new_users # <<>>
       THEN \E outcome \in SaveOutcomes :
              /\ save_progress(base_df, new_users, outcome)
              /\ pc' = IF outcome = "crash" THEN "crashed" ELSE "done"
       ELSE /\ pc' = "done"
            /\ UNCHANGED <<storeVars, lastFlush, nFlushFail>>
    /\ UNCHANGED <<nRaised, task_errors>>
    /\ UNCHANGED <<run, start_store, base_df, existing_usernames, new_users, tasks,
                   total_fetched, skipped_count, limit, interrupted, genVars,
                   sem, world>>

\* main() starts over: the same assignments as Fresh, on the next state
FreshNext(l) ==
    /\ pc' = "load"
    /\ base_df' = <<>>
    /\ existing_usernames' = {}
    /\ new_users' = <<>>
    /\ tasks' = <<>>
    /\ total_fetched' = 0
    /\ skipped_count' = 0
    /\ limit' = l
    /\ interrupted' = FALSE
    /\ gen' = "fetch"
    /\ url' = 1
    /\ users' = <<>>
    /\ next_url' = 0
    /\ retry_after' = 0
    /\ elapsed' = 0
    /\ response' = NoResponse
    /\ listed' = <<>>
    /\ handed' = <<>>
    /\ sem' = SemPermits
    /\ lastFlush' = "none"

\* the program is started again on the same store
NextRun ==
    /\ pc \in {"done", "crashed"}
    /\ run < MaxRuns
    /\ run' = run + 1
    /\ start_store' = store
    /\ \E l \in Limits : FreshNext(l)
    /\ UNCHANGED <<storeVars, world, nWaits, served, nFlushFail, nRaised,
                   task_errors>>

Next ==
    \/ LoadStore
    \/ GenFetch
    \/ GenSleep
    \/ LoopBreak
    \/ LoopSkip
    \/ LoopAdmit
    \/ LoopEnd
    \/ \E i \in 1..Len(tasks) : TaskAcquire(i)
    \/ \E i \in 1..Len(tasks) : TaskDetails1(i)
    \/ \E i \in 1..Len(tasks) : TaskDetails2(i)
    \/ \E i \in 1..Len(tasks) : TaskScrapeStart(i)
    \/ \E i \in 1..Len(tasks) : \E j \in 1..Len(tasks[i].results) : TaskScrapeDone(i, j)
    \/ \E i \in 1..Len(tasks) : TaskMerge(i)
    \/ GatherReturn
    \/ Interrupt
    \/ Finally
    \/ NextRun

Spec == Init /\ [][Next]_vars

(***************************************************************************)
(* The pipeline left to run: the process and the event loop go on as long  *)
(* as a step can be taken (asyncio.run drives main() and, inside gather,   *)
(* every coroutine that is ready), and the upstream answers every request. *)
(***************************************************************************)
SpecLive == Init /\ [][Next]_vars /\ WF_vars(Next)

(***************************************************************************)
(* The paginator before rate-limited responses only: the status, the       *)
(* Retry-After header (absent, or an integer that int() accepts), the      *)
(* X-RateLimit-Reset header (0 when absent) and the clock are drawn from   *)
(* bounded sets, and fetch_stargazers_page is applied to each.             *)
(***************************************************************************)
WaitResponses ==
    {[status |-> st, items |-> <<>>, next |-> 0, hasRetryAfter |-> p,
      retryAfter |-> v, reset |-> rs, now |-> nw] :
        st \in {403, 429}, p \in BOOLEAN, v \in -1..MaxHdr,
        rs \in 0..(MaxHdr + 1), nw \in 1..MaxHdr}

NextWait ==
    \/ LoadStore
    \/ GenFetchFrom({r \in WaitResponses : ~r.hasRetryAfter => r.retryAfter = 0})
    \/ GenSleep

SpecWait == Init /\ [][NextWait]_vars

(***************************************************************************)
(* The pipeline with a fault injected: a coroutine may end with an         *)
(* exception that nothing in process_user catches.                         *)
(***************************************************************************)
NextFault ==
    \/ Next
    \/ \E i \in 1..Len(tasks) : TaskRaise(i)
    \/ \E i \in 1..Len(tasks) : TaskDetails1Raise(i)

SpecFault == Init /\ [][NextFault]_vars

(***************************************************************************)
(* The enrichment of one entity over every small upstream record: the bio, *)
(* the two document URLs and the rendered texts are drawn from bounded     *)
(* sets, and the final batch that holds the entity is awaited and saved.   *)
(***************************************************************************)
BioTokens ==
    {Tok("scraped_email", "bio@x.com"), Tok("scraped_email", "alt@x.com"),
     Tok("scraped_twitter", "bio_t"), Tok("scraped_linkedin", "linkedin.com/in/bio")}

DocTokens(d) ==
    {Tok("scraped_email", d \o "@site.io"), Tok("scraped_twitter", d \o "_t")}

TextsOver(T) == UNION {SeqsOfLen(T, n) : n \in 0..MaxTextLen}

EntityRecords ==
    {[bio |-> b, blog |-> "alice.dev", html_url |-> "github.com/alice",
      doc1 |-> d1, doc2 |-> d2] :
        b \in TextsOver(BioTokens), d1 \in TextsOver(DocTokens("blog")),
        d2 \in TextsOver(DocTokens("profile"))}
    \cup
    {[bio |-> b, blog |-> None, html_url |-> "github.com/alice",
      doc1 |-> <<>>, doc2 |-> d2] :
        b \in TextsOver(BioTokens), d2 \in TextsOver(DocTokens("profile"))}
    \cup
    {[bio |-> b, blog |-> "alice.dev", html_url |-> None,
      doc1 |-> d1, doc2 |-> <<>>] :
        b \in TextsOver(BioTokens), d1 \in TextsOver(DocTokens("blog"))}
    \cup
    {[bio |-> b, blog |-> None, html_url |-> None,
      doc1 |-> <<>>, doc2 |-> <<>>] :
        b \in TextsOver(BioTokens)}

\* main() has collected the coroutine of the one listed entity and the
\* generator is exhausted (main.py:291-294)
InitEntity ==
    /\ store = <<>>
    /\ storeState = "absent"
    /\ run = 1
    /\ start_store = <<>>
    /\ \E e \in EntityRecords : world = [FixedWorld EXCEPT !.alice = e]
    /\ nWaits = 0
    /\ served = 1
    /\ nFlushFail = 0
    /\ pc = "gather_final"
    /\ base_df = <<>>
    /\ existing_usernames = {}
    /\ new_users = <<>>
    /\ tasks = <<NewTask("alice")>>
    /\ total_fetched = 1
    /\ skipped_count = 0
    /\ limit = 0
    /\ interrupted = FALSE
    /\ gen = "end"
    /\ url = 0
    /\ users = <<>>
    /\ next_url = 0
    /\ retry_after = 0
    /\ elapsed = 0
    /\ response = [status |-> 200] @@ NoHeaders
    /\ listed = <<"alice">>
    /\ handed = <<"alice">>
    /\ sem = SemPermits
    /\ lastFlush = "none"
    /\ nRaised = 0
    /\ task_errors = 0

NextEntity ==
    \/ \E i \in 1..Len(tasks) : TaskAcquire(i)
    \/ \E i \in 1..Len(tasks) : TaskDetails1(i)
    \/ \E i \in 1..Len(tasks) : TaskDetails2(i)
    \/ \E i \in 1..Len(tasks) : TaskScrapeStart(i)
    \/ \E i \in 1..Len(tasks) : \E j \in 1..Len(tasks[i].results) : TaskScrapeDone(i, j)
    \/ \E i \in 1..Len(tasks) : TaskMerge(i)
    \/ GatherReturn

SpecEntity == InitEntity /\ [][NextEntity]_vars

(***************************************************************************)
(* The last batch of a run, of two entities: alice with a blog and a       *)
(* profile page, bob with neither.  The two coroutines and the two scrapes *)
(* of alice run concurrently, then the batch is collected and saved.       *)
(***************************************************************************)
BatchWorld ==
    [FixedWorld EXCEPT
        !.alice.blog = "alice.dev",
        !.alice.doc1 = <<Tok("scraped_twitter", "alice_t"),
                         Tok("scraped_linkedin", "linkedin.com/in/blog")>>]

InitBatch ==
    /\ store = <<>>
    /\ storeState = "absent"
    /\ run = 1
    /\ start_store = <<>>
    /\ world = BatchWorld
    /\ nWaits = 0
    /\ served = 2
    /\ nFlushFail = 0
    /\ nRaised = 0
    /\ task_errors = 0
    /\ pc = "gather_final"
    /\ base_df = <<>>
    /\ existing_usernames = {}
    /\ new_users = <<>>
    /\ tasks = <<NewTask("alice"), NewTask("bob")>>
    /\ total_fetched = 2
    /\ skipped_count = 0
    /\ limit = 0
    /\ interrupted = FALSE
    /\ gen = "end"
    /\ url = 0
    /\ users = <<>>
    /\ next_url = 0
    /\ retry_after = 0
    /\ elapsed = 0
    /\ response = [status |-> 200] @@ NoHeaders
    /\ listed = <<"alice", "bob">>
    /\ handed = <<"alice", "bob">>
    /\ sem = SemPermits
    /\ lastFlush = "none"

SpecBatch == InitBatch /\ [][NextEntity]_vars

(***************************************************************************)
(* Properties.                                                             *)
(***************************************************************************)
IsPrefix(a, b) == Len(a) <= Len(b) /\ \A i \in 1..Len(a) : a[i] = b[i]

\* the number of rows of the store that carry the key
RowsOf(key, rows) == Cardinality({i \in 1..Len(rows) : rows[i]["Username"] = key})

\* the logins handed to enrichment in this run
Admitted ==
    {tasks[i].user.login : i \in 1..Len(tasks)}
    \cup {new_users[i].login : i \in 1..Len(new_users)}

\* C1: a login that is among the keys loaded at startup is never admitted:
\* no coroutine is collected for it, hence no detail fetch, no scrape and no
\* new row, wherever it stands in the listing.
C1_SkipOnSight == \A k \in existing_usernames : k \notin Admitted

\* a loaded key was listed and skipped, and another login listed with it
\* was admitted and completed
C1_Witness ==
    /\ existing_usernames # {}
    /\ skipped_count > 0
    /\ new_users # <<>>

\* C8: after a page fetch that returned a wait w > 0, the generator leaves
\* its sleep only to fetch again, with the same cursor, after at least w, and
\* nothing is admitted, skipped or counted in between.
C8_RateLimitHonoured ==
    [][(gen = "sleep" /\ run' = run)
         => /\ retry_after > 0
            /\ total_fetched' = total_fetched
            /\ skipped_count' = skipped_count
            /\ tasks' = tasks \/ pc' = "finally"
            /\ gen' \in {"sleep", "fetch"}
            /\ gen' = "fetch" => /\ url' = url
                                 /\ retry_after' = retry_after
                                 /\ elapsed' >= retry_after]_vars

\* the generator has slept and is about to fetch the same cursor again
C8_Witness ==
    /\ gen = "fetch"
    /\ pc = "loop"
    /\ retry_after > 0
    /\ elapsed >= retry_after
    /\ nWaits > 0

\* C10: a failed flush is logged and does not end the run, no step removes a
\* completed entity from new_users, and a flush that succeeds writes every
\* completed entity, those that missed a failed flush included.
C10_FlushFailureKeepsBuffer ==
    [][run' = run
         => /\ IsPrefix(new_users, new_users')
            /\ (nFlushFail' > nFlushFail /\ pc' # "crashed")
                  => /\ lastFlush' = "failed"
                     /\ pc' \in {"loop", "finally", "done"}
            /\ lastFlush' = "saved"
                  => /\ storeState' = "valid"
                     /\ Len(store') = Len(base_df') + Len(new_users')
                     /\ \A i \in 1..Len(new_users') :
                           store'[Len(base_df') + i] = ToRow(new_users'[i])]_vars

\* in the first run a flush failed and the flush at exit then succeeded
C10_Witness ==
    /\ run = 1
    /\ pc = "done"
    /\ nFlushFail > 0
    /\ lastFlush = "saved"
    /\ new_users # <<>>

\* the entities whose enrichment has completed in this run: those collected
\* in new_users and those whose coroutine has returned
Completed ==
    {new_users[i].login : i \in 1..Len(new_users)}
    \cup {tasks[i].user.login : i \in {j \in 1..Len(tasks) : tasks[j].tpc = "done"}}

\* C2: when a run that received a stop signal has exited, every entity whose
\* enrichment had completed before the signal has exactly one row in the
\* store.
C2_NoLossOnStop ==
    (pc = "done" /\ interrupted)
        => /\ Completed # {} => storeState = "valid"
           /\ \A k \in Completed : RowsOf(k, store) = 1

\* C3: the rows that were in the store when the run started stay in the
\* store, unchanged and in their order ahead of every new row, after every
\* flush and at exit, whatever the load and the flushes did.
C3_ExistingRowsKept ==
    /\ IsPrefix(start_store, store)
    /\ start_store # <<>> => storeState = "valid"

\* C4: after every flush no key occurs in more than one row of the store.
C4_KeyUniqueness ==
    storeState = "valid" => \A k \in Keys : RowsOf(k, store) <= 1

\* C5: in a run that follows another on the same store, no key that the
\* store held after the earlier run is enriched again, and none has more
\* than one row in the store when the run has exited.
C5_IdempotentDedup ==
    run > 1 =>
        \A k \in Usernames(start_store) :
            /\ k \notin Admitted
            /\ (pc = "done" /\ storeState = "valid") => RowsOf(k, store) <= 1

\* C9: every step that touches the store leaves it readable, with either
\* its previous contents or the complete new contents, a crash during the
\* flush included.
C9_AtomicFlush ==
    [][(store' # store \/ storeState' # storeState)
         => /\ storeState' = "valid"
            /\ store' = combined_df(base_df', new_users')]_vars

\* the value the last of the sources, in their order, gave for the field
LastNonEmpty(f, sources) ==
    LET found == {n \in 1..Len(sources) : truthy(sources[n][f])}
    IN  IF found = {} THEN None
        ELSE sources[CHOOSE n \in found : \A m \in found : m <= n][f]

\* what the bio and then each document of a task yielded
Sources(t) ==
    <<extract_from_text(UserBio(t.user))>>
    \o [j \in 1..Len(t.results) |-> t.results[j].data]

AllFailed(t) ==
    /\ t.urls # <<>>
    /\ \A j \in 1..Len(t.results) : t.results[j].st = "error"

C7_MergePrecedence ==
    \A i \in 1..Len(tasks) :
        tasks[i].tpc = "done"
            => \A f \in Fields :
                 tasks[i].user.contacts[f] = LastNonEmpty(f, Sources(tasks[i]))

(***************************************************************************)
(* The exit of the process: main() returns and asyncio.run(main()) ends    *)
(* the script (main.py:323-326), or the process was killed.                *)
(***************************************************************************)
exit_status ==
    CASE pc = "done" -> 0
      [] pc = "crashed" -> 137
      [] OTHER -> -1

\* the statuses of a page response that the paginator tries again
Retryable == {0, 403, 429}

\* the last page response was a failure that is not tried again
FatalResponse == response.status \notin Retryable \cup {200, NoResponse.status}

\* C11: a page failure that is not retryable gives no items, no cursor and
\* leaves the paginator in a state other than the one of a listing that
\* ended normally; a run that such a failure stopped before any entity was
\* processed exits with a status other than 0, and a run that completed
\* normally exits with 0.
C11_FatalDistinct ==
    /\ (pc = "done" /\ ~interrupted /\ response.status = 200) => exit_status = 0
    /\ FatalResponse =>
          /\ users = <<>>
          /\ next_url = 0
          /\ gen # "end"
          /\ (pc = "done" /\ ~interrupted /\ handed = <<>>) => exit_status # 0

\* the entities the paginator has fetched and the pipeline has not finished:
\* the rest of the page held by the generator and the coroutines of the
\* batch
Outstanding == Len(users) + Len(tasks)

GatherReturns ==
    /\ Awaiting
    /\ tasks # <<>>
    /\ tasks' = <<>>
    /\ interrupted' = interrupted

\* C13: an exception that the processing of one entity raises is caught and
\* logged; the run goes on, and the other entities of the batch are
\* collected and written with the flush that follows, as are the entities
\* of later batches.
C13_CrashIsolation ==
    [][GatherReturns =>
          /\ task_errors' = task_errors + batch_errors(tasks)
          /\ new_users' = new_users \o batch_results(tasks)
          /\ pc' \in {IF pc = "gather" THEN "loop" ELSE "finally", "crashed"}
          /\ lastFlush' = "saved" => store' = base_df \o ToRows(new_users')]_vars

\* C14: with a cap L > 0 at most L entities are admitted in a run; an
\* entity that is skipped does not count toward L; and every entity admitted
\* before the cap was hit is enriched and flushed, the last batch included
\* when it is smaller than the batch size: when the run ends without a stop
\* signal, every admitted entity has been collected from its coroutine and
\* handed to a flush, and the flush that succeeded wrote them all.
C14_CapOnNew ==
    [][/\ limit' # 0 => total_fetched' <= limit'
       /\ skipped_count' = skipped_count + 1 => total_fetched' = total_fetched
       /\ total_fetched' = total_fetched + 1
             => /\ limit # 0 => total_fetched < limit
                /\ tasks' = Append(tasks, NewTask(Head(users)))
       /\ GatherReturns
             => /\ \A i \in 1..Len(tasks) : tasks[i].tpc = "done"
                /\ new_users' = new_users \o [i \in 1..Len(tasks) |-> tasks[i].user]
       /\ (pc' \in {"finally", "done"} /\ ~interrupted')
             => /\ tasks' = <<>>
                /\ Len(new_users') = total_fetched'
                /\ total_fetched' > 0 => lastFlush' \in {"saved", "failed"}
       /\ (pc' = "done" /\ ~interrupted' /\ lastFlush' = "saved")
             => store' = base_df' \o ToRows(new_users')]_vars

\* the cap is 1, two items were handed over in a run on an empty store: the
\* first was admitted, the second hit the cap, and the batch of one entity,
\* smaller than the batch size, was awaited and written
C14_Witness ==
    /\ run = 1
    /\ limit = 1
    /\ pc = "done"
    /\ ~interrupted
    /\ Len(handed) = 2
    /\ total_fetched = 1
    /\ BatchSize > 1
    /\ lastFlush = "saved"
    /\ Len(store) = 1
    /\ store[1]["Username"] = handed[1]

\* the run of the scenario, ended: the store held the row of alice alone
\* and was loaded, the source listed alice then bob and nothing more, the
\* detail record of every new entity was obtained, no stop signal came and
\* the last flush was written
ScenarioRun ==
    /\ pc = "done"
    /\ ~interrupted
    /\ Len(start_store) = 1
    /\ start_store[1]["Username"] = "alice"
    /\ base_df = start_store
    /\ listed = <<"alice", "bob">>
    /\ gen = "end"
    /\ response.status = 200
    /\ \A k \in 1..Len(new_users) : new_users[k].detailed
    /\ lastFlush = "saved"

\* C15: the store holds exactly alice and the source lists alice then bob,
\* whose bio contains bob@x.com and who has no document URL: the run ends
\* with a store of exactly two rows, the row of bob has the scraped email
\* bob@x.com, and the row of alice is the one the store held before.
C15_Scenario ==
    ScenarioRun =>
        /\ Len(store) = 2
        /\ store[1] = start_store[1]
        /\ store[2]["Username"] = "bob"
        /\ store[2]["Scraped Email"] = "bob@x.com"

\* the scenario has run: bob's bio holds the email, bob has no document,
\* alice was skipped and bob admitted
C15_Witness ==
    /\ ScenarioRun
    /\ extract_from_text(world["bob"].bio)["scraped_email"] = "bob@x.com"
    /\ world["bob"].blog = None
    /\ world["bob"].html_url = None
    /\ skipped_count = 1
    /\ total_fetched = 1
    /\ Len(store) = 2
    /\ store[2]["Scraped Email"] = "bob@x.com"

\* C16: the items handed to the pipeline are the items of the pages served,
\* in cursor order and in page order, each once, whatever rate-limit
\* responses and transient failures come in between; a transient failure is
\* followed by a wait of 5 s and a fetch of the same cursor, without a bound
\* on the retries; and the listing ends only when a page was served without
\* a next cursor or without items, every item of the last page having been
\* handed over.
C16_ListingOrder ==
    /\ handed \o users = listed
    /\ response.status = 0
          => /\ gen \in {"sleep", "fetch"}
             /\ retry_after = NetworkErrorWait
             /\ url # 0
    /\ gen = "end"
          => /\ response.status \notin Retryable
             /\ handed = listed

\* C17: a page response with status 403 or 429 for a cursor, whatever wait
\* its headers give, is followed by a wait and another fetch of the same
\* cursor: the paginator goes to sleep with the cursor kept, and never ends
\* the listing on it.
C17_RateLimitNeverEnds ==
    [][(gen = "fetch" /\ gen' # "fetch" /\ response'.status \in {403, 429})
          => /\ gen' = "sleep"
             /\ url' = url
             /\ url' # 0]_vars

\* the Retry-After value the code works with: the header, or 60 without it
RetryAfterValue ==
    IF response.hasRetryAfter THEN response.retryAfter ELSE DefaultRetryAfter

\* C18: the wait computed for a rate-limited response is
\* max(retryAfter, resetTimestamp - now + 1) floored at 0, and is never
\* negative, for every Retry-After value, reset timestamp and clock.
C18_WaitValue ==
    response.status \in {403, 429}
        => /\ retry_after
                = Max(0, Max(RetryAfterValue, response.reset - response.now + 1))
           /\ retry_after >= 0

\* the coroutine is past the bio step and has merged no document yet
AfterBioStep(t) ==
    \/ t.tpc \in {"wait_sem", "scraping"}
    \/ t.tpc = "done" /\ t.urls = <<>>

\* C19: every contact field that extraction finds in the bio of an entity
\* is in the entity after the bio step, with the value extraction gave,
\* whichever fields the bio yields.
C19_BioFieldsMerged ==
    \A i \in 1..Len(tasks) :
        AfterBioStep(tasks[i])
            => \A f \in Fields :
                 LET found == extract_from_text(UserBio(tasks[i].user))[f]
                 IN  truthy(found) => tasks[i].user.contacts[f] = found

\* C20: the documents of an entity are its blog first and its profile page
\* second; the result of each scrape is kept at the place of its document
\* and the results are merged in that order, whichever scrape returns
\* first: a field that both documents yield ends with the value of the
\* profile page, a field that only one yields with the value of that one.
C20_DocumentOrder ==
    \A i \in 1..Len(tasks) :
        LET t == tasks[i] IN
        /\ Len(t.urls) = 2
              => /\ t.urls[1] = UserBlog(t.user)
                 /\ t.urls[2] = UserHtml(t.user)
        /\ \A j \in 1..Len(t.results) :
              t.results[j].st = "ok"
                 => t.results[j].data
                       = extract_from_text(page_content(t.user.login, t.urls[j]))
        /\ (t.tpc = "done" /\ Len(t.urls) = 2)
              => \A f \in Fields :
                   LET d1 == t.results[1].data[f]
                       d2 == t.results[2].data[f]
                   IN  /\ truthy(d2) => t.user.contacts[f] = d2
                       /\ (~truthy(d2) /\ truthy(d1)) => t.user.contacts[f] = d1

\* the scrape of the profile page returned before the scrape of the blog,
\* both documents yield an email, and the entity has the email of the
\* profile page
C20_Witness ==
    /\ Len(tasks) = 1
    /\ tasks[1].tpc = "done"
    /\ tasks[1].finished = <<2, 1>>
    /\ tasks[1].results[1].st = "ok"
    /\ tasks[1].results[2].st = "ok"
    /\ tasks[1].results[1].data["scraped_email"] = "blog@site.io"
    /\ tasks[1].results[2].data["scraped_email"] = "profile@site.io"
    /\ tasks[1].user.contacts["scraped_email"] = "profile@site.io"

\* C21: the detail record of an entity is fetched only while the entity has
\* no detail fields; once a fetch has populated them no other is made, so
\* an admitted entity causes at most one successful detail fetch.
C21_DetailFetchOnce ==
    \A i \in 1..Len(tasks) :
        /\ tasks[i].detail_oks <= 1
        /\ tasks[i].detail_oks = 1 <=> tasks[i].user.detailed

\* the coroutines inside a with block of the semaphore
Holders == {i \in 1..Len(tasks) : tasks[i].tpc \in {"details1", "scraping"}}

\* the coroutines that have not ended
Running == {i \in 1..Len(tasks) : tasks[i].tpc \notin {"done", "raised"}}

\* a coroutine that can take its next step
CanStep(i) ==
    \/ tasks[i].tpc \in {"details1", "details2", "scraping"}
    \/ tasks[i].tpc \in {"start", "wait_sem"} /\ sem > 0

\* C22: at most as many entities as the semaphore has permits hold one at
\* any time; a coroutine that acquires the semaphore holds no permit; every
\* permit is given back on every way out of a with block, exceptions
\* included, so the permits taken are those of the coroutines inside a
\* block; an awaited batch larger than the number of permits always has a
\* coroutine that can go on; and every permit is free once the batch has
\* finished.
C22_LimiterSafe ==
    /\ sem >= 0
    /\ Cardinality(Holders) <= SemPermits
    /\ sem = SemPermits - Cardinality(Holders)
    /\ (Awaiting /\ Running # {}) => \E i \in Running : CanStep(i)
    /\ Running = {} => sem = SemPermits

\* a batch with more coroutines than permits is awaited: one coroutine is
\* scraping with the last permit and another waits for it
C22_Witness ==
    /\ pc = "gather"
    /\ Len(tasks) > SemPermits
    /\ sem = 0
    /\ \E i, j \in 1..Len(tasks) :
          /\ tasks[i].tpc = "scraping"
          /\ tasks[j].tpc \in {"start", "wait_sem"}

\* C23: in every interleaving of the coroutines of a batch, a step that
\* changes the record of an entity is a step of the one coroutine of that
\* entity and changes no other record; while the document fetches of an
\* entity run, the record is left alone, and it is updated only when all of
\* them have returned; and a record goes to the saver only when no
\* coroutine of the batch can run any more.
C23_SingleOwnership ==
    [][/\ Len(tasks') = Len(tasks)
             => \A i \in 1..Len(tasks) :
                  /\ tasks'[i] # tasks[i]
                        => \A j \in 1..Len(tasks) : j # i => tasks'[j] = tasks[j]
                  /\ tasks'[i].user # tasks[i].user
                        => tasks[i].tpc \in {"details1", "details2", "scraping"}
                  /\ (tasks[i].tpc = "scraping"
                        /\ \E j \in 1..Len(tasks[i].results) :
                              tasks[i].results[j].st = "pending")
                        => tasks'[i].user = tasks[i].user
       /\ new_users' # new_users
             => /\ Running = {}
                /\ tasks' = <<>>
                /\ new_users' = new_users \o batch_results(tasks)
       /\ store' # store
             => /\ Running = {}
                /\ lastFlush' = "saved" => store' = base_df \o ToRows(new_users')]_vars

\* the scrape of alice's profile page has returned and the scrape of her
\* blog has not: her record has nothing of the profile page yet, and the
\* coroutine of bob is at work at the same time
C23_Witness ==
    /\ Len(tasks) = 2
    /\ tasks[1].tpc = "scraping"
    /\ Len(tasks[1].results) = 2
    /\ tasks[1].results[1].st = "pending"
    /\ tasks[1].results[2].st = "ok"
    /\ tasks[1].results[2].data["scraped_linkedin"] # None
    /\ tasks[1].user.contacts["scraped_linkedin"] = None
    /\ tasks[2].tpc = "details2"

\* the places of text where the pattern of field f matches
Places(f, text) == {k \in 1..Len(text) : text[k].kind = f}

\* what the claim gives field f for text: absent without a match, and
\* otherwise the value made of the match at the first place
FirstMatch(f, text) ==
    IF Places(f, text) = {} THEN None
    ELSE LET k == CHOOSE k \in Places(f, text) : \A m \in Places(f, text) : k <= m
         IN  format(f, text[k].val)

\* the texts extraction is applied to for the entity of coroutine t, as far
\* as t has got: the bio and the documents whose scrape has returned
Extracted(t) ==
    (IF AfterBioStep(t) \/ t.tpc = "done" THEN {UserBio(t.user)} ELSE {})
    \cup {page_content(t.user.login, t.urls[j]) :
            j \in {k \in 1..Len(t.results) : t.results[k].st = "ok"}}

\* C24: for every text, every field is matched on its own: a field with one
\* or more matches has the first match in document order, a field without
\* a match is absent (None, never the empty string), the empty text gives
\* every field absent, and the result of a scrape and the fields merged
\* from a bio are the extraction of their text, the same each time.
C24_FirstMatch ==
    \A i \in 1..Len(tasks) :
        LET t == tasks[i] IN
        /\ \A text \in Extracted(t) : \A f \in Fields :
              /\ extract_from_text(text)[f] = FirstMatch(f, text)
              /\ extract_from_text(text)[f] # ""
              /\ text = <<>> => extract_from_text(text)[f] = None
        /\ \A j \in 1..Len(t.results) :
              t.results[j].st = "ok"
                 => \A f \in Fields :
                      t.results[j].data[f]
                         = FirstMatch(f, page_content(t.user.login, t.urls[j]))
        /\ (AfterBioStep(t) /\ t.user.contacts # NoContacts)
              => \A f \in Fields :
                   t.user.contacts[f] = FirstMatch(f, UserBio(t.user))

\* the bio holds two different emails and no twitter handle: after the bio
\* step the entity has the first email and no twitter value
C24_Witness ==
    /\ Len(tasks) = 1
    /\ AfterBioStep(tasks[1])
    /\ tasks[1].user.detailed
    /\ world["alice"].bio
          = <<Tok("scraped_email", "alt@x.com"), Tok("scraped_email", "bio@x.com")>>
    /\ tasks[1].user.contacts["scraped_email"] = "alt@x.com"
    /\ tasks[1].user.contacts["scraped_twitter"] = None

\* the listed items whose key was not in the store when the run started
NewListed == SelectSeq(listed, LAMBDA k : k \notin Usernames(start_store))

\* those of them the cap lets in
UpToCap ==
    IF limit = 0 \/ Len(NewListed) <= limit THEN NewListed
    ELSE SubSeq(NewListed, 1, limit)

\* the run has stopped by itself, after a listing in which no page request
\* failed for good
RunStopped == pc = "done" /\ ~interrupted /\ ~FatalResponse

\* C25: when the listing is finite, every page fetch succeeds in the end
\* and every detail fetch and render returns, the run stops in the end; and
\* when it has stopped, the paginator has been through the last page, the
\* store has the rows it had at startup and, after them, one row for every
\* listed entity whose key was not in the store at startup, up to the cap.
C25_TerminationComplete ==
    /\ (pc \notin {"done", "crashed"}) ~> (pc \in {"done", "crashed"})
    /\ [](RunStopped
            => /\ gen = "end" \/ (limit # 0 /\ total_fetched >= limit)
               /\ gen = "end" => response.status = 200
               /\ IsPrefix(start_store, store)
               /\ Len(store) = Len(start_store) + Len(UpToCap)
               /\ \A k \in {UpToCap[i] : i \in 1..Len(UpToCap)} :
                     RowsOf(k, store) = 1)

\* no coroutine of the batch has been started
NoneStarted == \A i \in 1..Len(tasks) : tasks[i].tpc = "start"

\* C26: while main is in its loop over the listing, where the page fetches
\* and the sleeps of the paginator take place, no coroutine runs; the
\* coroutines collected for a batch start only once the batch is awaited;
\* and the paginator is resumed for the next item only when every coroutine
\* of the batch has ended and the batch has been handed to the flush.
C26_NoOverlap ==
    [][/\ pc' = "loop" => \A i \in 1..Len(tasks') : tasks'[i].tpc = "start"
       /\ \A i \in 1..Len(tasks) :
             (Len(tasks') = Len(tasks) /\ tasks'[i] # tasks[i]) => Awaiting
       /\ <<gen, url, users, elapsed, handed, listed, response>>'
             # <<gen, url, users, elapsed, handed, listed, response>>
             => (pc = "loop" /\ NoneStarted) \/ run' # run
       /\ (Awaiting /\ pc' = "loop")
             => /\ Running = {}
                /\ tasks' = <<>>
                /\ new_users' = new_users \o batch_results(tasks)
                /\ lastFlush' \in {"saved", "failed"}]_vars

\* one coroutine is collected and not started while the paginator sleeps
\* after a rate-limited response for the next page
C26_Witness ==
    /\ pc = "loop"
    /\ gen = "sleep"
    /\ Len(tasks) = 1
    /\ tasks[1].tpc = "start"
    /\ response.status \in {403, 429}

\* save_progress is called: after an awaited batch, or on the way out
FlushStep ==
    \/ GatherReturns
    \/ pc = "finally" /\ pc' # pc /\ new_users # <<>>

\* C27: every flush that succeeds writes exactly the rows loaded at startup
\* followed by the rows of all entities collected so far in the run, which
\* for the flush of a batch are all entities completed so far; so a row
\* written by one flush of a run is in every later flush of that run, and
\* the flush at exit, coming after the flush of the last batch with nothing
\* completed in between, leaves the store as it is.
C27_CumulativeFlush ==
    [][(FlushStep /\ lastFlush' = "saved")
          => /\ base_df' = base_df
             /\ IsPrefix(new_users, new_users')
             /\ store' = base_df \o ToRows(new_users')
             /\ GatherReturns
                   => \A k \in Completed : \E i \in 1..Len(new_users') :
                         new_users'[i].login = k
             /\ (lastFlush = "saved" /\ storeState = "valid")
                   => IsPrefix(store, store')
             /\ (pc = "finally" /\ lastFlush = "saved")
                   => store' = store]_vars

\* a run on an empty store in which no flush failed: a full batch was
\* flushed, then the last batch, then the exit path flushed again, and the
\* store holds the three rows once each
C27_Witness ==
    /\ run = 1
    /\ pc = "done"
    /\ ~interrupted
    /\ nFlushFail = 0
    /\ lastFlush = "saved"
    /\ Len(new_users) = BatchSize + 1
    /\ store = ToRows(new_users)

\* the entity that the fixed inputs determine: the item of the listing,
\* whether its detail record is obtained, and for each of its documents, in
\* the order of main.py:46-55, whether it is rendered; the value of a field
\* is that of the last source, bio first, that has one
Determined(login, detailed, rendered) ==
    LET u    == [raw_user(login) EXCEPT !.detailed = detailed]
        bio  == extract_from_text(UserBio(u))
        gate == truthy(bio["scraped_email"]) \/ truthy(bio["scraped_linkedin"])
        us   == urls_to_scrape(u)
        docs == [j \in 1..Len(us) |->
                    IF rendered[j] THEN extract_from_text(page_content(login, us[j]))
                    ELSE NoContacts]
        srcs == (IF gate THEN <<bio>> ELSE <<>>) \o docs
    IN  [u EXCEPT !.contacts = [f \in Fields |-> LastNonEmpty(f, srcs)]]

\* the inputs a coroutine met, as its record keeps them
DeterminedOf(t) ==
    Determined(t.user.login, t.user.detailed,
               [j \in 1..Len(t.results) |-> t.results[j].st = "ok"])

\* C28: the store written when a batch has been collected is determined by
\* the listing, the detail records and the rendered texts alone: its new
\* rows are those of the admitted entities in the order of the listing, and
\* every row is the one the inputs of its entity determine, whatever the
\* order in which the coroutines ran and the document fetches returned.
C28_SchedulingIndependent ==
    [][(GatherReturns /\ lastFlush' = "saved")
          => /\ Len(store') = Len(base_df) + Len(new_users) + Len(tasks)
             /\ [i \in 1..Len(tasks) |->
                    store'[Len(base_df) + Len(new_users) + i]["Username"]]
                   = SelectSeq(handed, LAMBDA k : k \notin existing_usernames)
             /\ \A i \in 1..Len(tasks) :
                   store'[Len(base_df) + Len(new_users) + i]
                      = ToRow(DeterminedOf(tasks[i]))]_vars

\* both detail records obtained and both documents of alice rendered: the
\* saved store has the row of alice, with the twitter handle of her blog
\* and the linkedin address of her profile page, then the row of bob
C28_Witness ==
    /\ pc \in {"finally", "done"}
    /\ lastFlush = "saved"
    /\ Len(store) = 2
    /\ store[1] = ToRow(Determined("alice", TRUE, <<TRUE, TRUE>>))
    /\ store[1]["Twitter (Scraped)"] = "https://x.com/alice_t"
    /\ store[1]["LinkedIn"] = "https://www.linkedin.com/in/alice"
    /\ store[1]["Scraped Email"] = "alice@x.com"
    /\ store[2] = ToRow(Determined("bob", TRUE, <<>>))
    /\ store[2]["Scraped Email"] = "bob@x.com"
====
